---- MODULE Spec2Model ----
(***************************************************************************)
(* A model of the rime-dict-builder build script (build.js): the row       *)
(* comparator, the dedup/sort stage, the memoizing converter with its      *)
(* override table, the table loader and the per-scheme generator.          *)
(*                                                                         *)
(* A JavaScript string is a sequence of UTF-16 code units (naturals); a    *)
(* row is a sequence of strings; a line is a string.                       *)
(***************************************************************************)
EXTENDS Integers, Sequences, FiniteSets, TLC

VARIABLES
  \* comparator harness: the rows handed to compareRow and its results
  cx, cy, cz, cres,
  \* dedup/sort harness: the caller's rows, the header, the unspaced flag
  \* and the lines uniqSortedLines yielded
  urows, uhdr, uflag, uout,
  \* converter harness: the override table and deriver the converter was
  \* made with, its cache, the calls made so far, and whether a call threw
  vspecial, vderive, vcache, vlog, vthrown,
  \* generator: the schemes requested (in order), how the runtime treats an
  \* unhandled rejection, the source tables, the schemes started so far,
  \* and per scheme: where generate stands, the lines read of the current
  \* table, dict, dictWords, the converter's cache, the three artifacts,
  \* the tables loaded to the end, the rows as loaded, and the error
  gorder, gmode, gsrc, gstarted, gexited,
  gpc, gpos, gdict, gwords, gcache, gart, gloaded, ghist, gerr

cmpVars == <<cx, cy, cz, cres>>
uniqVars == <<urows, uhdr, uflag, uout>>
convVars == <<vspecial, vderive, vcache, vlog, vthrown>>
genVars == <<gorder, gmode, gsrc, gstarted, gexited,
             gpc, gpos, gdict, gwords, gcache, gart, gloaded, ghist, gerr>>
vars == <<cx, cy, cz, cres, urows, uhdr, uflag, uout,
          vspecial, vderive, vcache, vlog, vthrown,
          gorder, gmode, gsrc, gstarted, gexited,
          gpc, gpos, gdict, gwords, gcache, gart, gloaded, ghist, gerr>>

(***************************************************************************)
(* Each specification below drives one part of the script; the variables   *)
(* of the other parts stay at these values.                                *)
(***************************************************************************)
NoResult == [done |-> FALSE]
CmpIdle == cx = <<>> /\ cy = <<>> /\ cz = <<>> /\ cres = NoResult
UniqIdle == urows = <<>> /\ uhdr = <<>> /\ uflag = FALSE /\ uout = NoResult
ConvIdle ==
  /\ vspecial = <<>> /\ vderive = <<>> /\ vcache = <<>> /\ vlog = <<>>
  /\ vthrown = FALSE
GenIdle ==
  /\ gorder = <<>> /\ gmode = "" /\ gsrc = <<>> /\ gstarted = 0
  /\ gexited = FALSE /\ gpc = <<>> /\ gpos = <<>> /\ gdict = <<>>
  /\ gwords = <<>> /\ gcache = <<>> /\ gart = <<>> /\ gloaded = <<>>
  /\ ghist = <<>> /\ gerr = <<>>

(***************************************************************************)
(* Characters the script names.                                            *)
(***************************************************************************)
TAB == 9
NL == 10
SP == 32
BANG == 33
EQ == 61
GT == 62

(***************************************************************************)
(* Bounds of the model.                                                    *)
(***************************************************************************)
\* fields + code units of a row handed to compareRow, three rows at a time
TripleRowSize == 3
\* fields + code units of a row handed to compareRow, two rows at a time
PairRowSize == 5
\* rows in a collection handed to uniqSortedLines
UniqMaxRows == 3
\* calls made to one converter
ConvMaxCalls == 4
\* lines in the three source tables together
GenMaxLines == 3

(***************************************************************************)
(* Sorting: compareFullUnicode, compareRow.                                *)
(***************************************************************************)
IsLead(u) == u >= 55296 /\ u <= 56319
IsTrail(u) == u >= 56320 /\ u <= 57343

\* x[Symbol.iterator]() with codePointAt(0) on each item: a lead surrogate
\* followed by a trail surrogate is one code point, any other unit is its own.
RECURSIVE CodePoints(_)
CodePoints(s) ==
  IF s = <<>> THEN <<>>
  ELSE IF Len(s) >= 2 /\ IsLead(s[1]) /\ IsTrail(s[2])
       THEN <<65536 + (s[1] - 55296) * 1024 + (s[2] - 56320)>>
              \o CodePoints(SubSeq(s, 3, Len(s)))
       ELSE <<s[1]>> \o CodePoints(Tail(s))

\* the for(;;) loop of compareFullUnicode over the two iterators
RECURSIVE CompareIter(_, _)
CompareIter(ix, iy) ==
  IF ix = <<>> /\ iy = <<>> THEN 0
  ELSE LET cpx == IF ix = <<>> THEN -1 ELSE Head(ix)
           cpy == IF iy = <<>> THEN -1 ELSE Head(iy)
           diff == cpx - cpy
       IN IF diff # 0 THEN diff ELSE CompareIter(Tail(ix), Tail(iy))

\* a comparison of the raw code units, as the default string order does
compareUnits(x, y) == CompareIter(x, y)

compareFullUnicode(x, y) == CompareIter(CodePoints(x), CodePoints(y))

Min(a, b) == IF a <= b THEN a ELSE b

\* the field loop of compareRow, from field i up to field l
RECURSIVE CompareFields(_, _, _, _)
CompareFields(x, y, i, l) ==
  IF i > l THEN Len(x) - Len(y)
  ELSE LET diff == compareFullUnicode(x[i], y[i])
       IN IF diff # 0 THEN diff ELSE CompareFields(x, y, i + 1, l)

\* compareRow without the final field-count difference
RECURSIVE CompareFieldsOnly(_, _, _, _)
CompareFieldsOnly(x, y, i, l) ==
  IF i > l THEN 0
  ELSE LET diff == compareFullUnicode(x[i], y[i])
       IN IF diff # 0 THEN diff ELSE CompareFieldsOnly(x, y, i + 1, l)

compareRowNoCount(x, y) ==
  LET diffWordLen == Len(CodePoints(x[1])) - Len(CodePoints(y[1]))
  IN IF diffWordLen # 0 THEN diffWordLen
     ELSE CompareFieldsOnly(x, y, 1, Min(Len(x), Len(y)))

compareRow(x, y) ==
  LET diffWordLen == Len(CodePoints(x[1])) - Len(CodePoints(y[1]))
  IN IF diffWordLen # 0 THEN diffWordLen
     ELSE CompareFields(x, y, 1, Min(Len(x), Len(y)))

Sgn(n) == IF n < 0 THEN -1 ELSE IF n > 0 THEN 1 ELSE 0

(***************************************************************************)
(* Dedup/sort stage: uniqSortedLines.  The caller's array is a heap of row *)
(* objects addressed by index; rows.slice() copies the references only.    *)
(***************************************************************************)
\* Array.prototype.sort with compareRow (stable), on references into heap
RECURSIVE InsertRef(_, _, _)
InsertRef(heap, sorted, r) ==
  IF sorted = <<>> THEN <<r>>
  ELSE IF compareRow(heap[Head(sorted)], heap[r]) <= 0
       THEN <<Head(sorted)>> \o InsertRef(heap, Tail(sorted), r)
       ELSE <<r>> \o sorted

RECURSIVE SortRefs(_, _)
SortRefs(heap, n) ==
  IF n = 0 THEN <<>> ELSE InsertRef(heap, SortRefs(heap, n - 1), n)

\* row.join("\t")
RECURSIVE Join(_, _)
Join(row, sep) ==
  IF row = <<>> THEN <<>>
  ELSE IF Len(row) = 1 THEN row[1]
  ELSE row[1] \o <<sep>> \o Join(Tail(row), sep)

\* str.replace(/ /g, "="): every match of / / from the left
RECURSIVE ReplaceSpaces(_)
ReplaceSpaces(str) ==
  IF str = <<>> THEN <<>>
  ELSE <<IF Head(str) = SP THEN EQ ELSE Head(str)>> \o ReplaceSpaces(Tail(str))

\* the unspaced branch writing into the caller's row object (no row.slice())
UnspacedRowInPlace(heap, ref) ==
  LET row == [heap[ref] EXCEPT ![2] = ReplaceSpaces(@)]
  IN [heap |-> [heap EXCEPT ![ref] = row], row |-> row]

\* row = row.slice(); row[1] = row[1].replace(/ /g, "=")
UnspacedRow(heap, ref) ==
  LET copy == heap[ref]
  IN [heap |-> heap, row |-> [copy EXCEPT ![2] = ReplaceSpaces(@)]]

\* the for loop of uniqSortedLines; lastLine is <<>> while undefined and
\* <<line>> afterwards
RECURSIVE UniqLoop(_, _, _, _, _, _)
UniqLoop(heap, order, i, unspaced, lastLine, out) ==
  IF i > Len(order) THEN [heap |-> heap, lines |-> out]
  ELSE LET st == IF unspaced THEN UnspacedRow(heap, order[i])
                 ELSE [heap |-> heap, row |-> heap[order[i]]]
           line == Join(st.row, TAB) \o <<NL>>
       IN UniqLoop(st.heap, order, i + 1, unspaced, <<line>>,
                   IF <<line>> # lastLine THEN Append(out, line) ELSE out)

\* uniqSortedLines(rows, header, unspaced), run to exhaustion: the lines it
\* yields and the caller's rows afterwards.  A header of <<>> is falsy.
uniqSortedLines(rows, header, unspaced) ==
  LET r == UniqLoop(rows, SortRefs(rows, Len(rows)), 1, unspaced, <<>>,
                    IF header # <<>> THEN <<header>> ELSE <<>>)
  IN [lines |-> r.lines, rows |-> r.heap]

(***************************************************************************)
(* Converter: makeConverter.  The deriver is external: a record of the     *)
(* descriptions the parser rejects (bad), those the derivation function    *)
(* rejects (fails), and a tag that makes its codes recognisable.           *)
(***************************************************************************)
StartsWith(str, c) == Len(str) >= 1 /\ str[1] = c

\* str.slice(1)
Slice1(str) == SubSeq(str, 2, Len(str))

\* property names every plain object inherits ("constructor" here)
ObjectPrototypeKeys == {<<99, 111, 110, 115, 116, 114, 117, 99, 116, 111, 114>>}

\* special[key] on an object literal: an own property, else an inherited
\* one (not a string), else undefined
Lookup(special, key) ==
  IF key \in DOMAIN special THEN [type |-> "string", str |-> special[key]]
  ELSE IF key \in ObjectPrototypeKeys THEN [type |-> "function"]
  ELSE [type |-> "undefined"]

\* !sub: undefined and the empty string are falsy
Falsy(sub) == sub.type = "undefined" \/ (sub.type = "string" /\ sub.str = <<>>)

Throw(kind, cache, parsed, derived) ==
  [kind |-> kind, val |-> <<>>, cache |-> cache,
   parsed |-> parsed, derived |-> derived]

Return(val, cache, parsed, derived) ==
  [kind |-> "return", val |-> val, cache |-> cache,
   parsed |-> parsed, derived |-> derived]

\* the code the external derivation function gives a description
DeriveCode(derive, x) == <<derive.tag>> \o x

\* a cache.set that stores nothing
CacheSetLost(cache, x, res) == cache

\* cache.set(x, res)
CacheSet(cache, x, res) == (x :> res) @@ cache

\* normal handling of the (possibly rewritten) description x
Normal(derive, cache, x) ==
  IF x \in DOMAIN cache THEN Return(cache[x], cache, <<>>, <<>>)
  ELSE IF x \in derive.bad THEN Throw("parse_error", cache, <<x>>, <<>>)
  ELSE IF x \in derive.fails THEN Throw("derive_error", cache, <<x>>, <<x>>)
  ELSE LET res == DeriveCode(derive, x)
       IN Return(res, CacheSet(cache, x, res), <<x>>, <<x>>)

\* a substitute that returns the whole instruction, ">" included
SubstituteWhole(sub) == sub

\* return sub.slice(1)
Substitute(sub) == Slice1(sub)

\* a rewrite that keeps the instruction's "="
RewriteWhole(sub) == sub

\* x = sub.slice(1)
Rewrite(sub) == Slice1(sub)

\* the function makeConverter returns, applied to x with the cache as it is
conv(derive, special, cache, x) ==
  IF StartsWith(x, BANG)
  THEN LET sub == Lookup(special, Slice1(x))
       IN IF Falsy(sub) THEN Throw("unhandled", cache, <<>>, <<>>)
          ELSE IF sub.type # "string"
               THEN Throw("type_error", cache, <<>>, <<>>)
          ELSE IF StartsWith(sub.str, GT)
               THEN Return(Substitute(sub.str), cache, <<>>, <<>>)
          ELSE IF StartsWith(sub.str, EQ)
               THEN Normal(derive, cache, Rewrite(sub.str))
          ELSE Throw("invalid", cache, <<>>, <<>>)
  ELSE Normal(derive, cache, x)

(***************************************************************************)
(* File reading: loadTsv, extendFromTsv.                                   *)
(***************************************************************************)
\* str.split(sep)
RECURSIVE Split(_, _)
Split(str, sep) ==
  LET hits == {i \in 1..Len(str) : str[i] = sep}
  IN IF hits = {} THEN <<str>>
     ELSE LET i == CHOOSE h \in hits : \A g \in hits : h <= g
          IN <<SubSeq(str, 1, i - 1)>>
               \o Split(SubSeq(str, i + 1, Len(str)), sep)

\* input.split(" ").map(conv): left to right, up to the first call that throws
RECURSIVE ConvAll(_, _, _, _, _)
ConvAll(derive, special, cache, descs, codes) ==
  IF descs = <<>> THEN [kind |-> "return", codes |-> codes, cache |-> cache]
  ELSE LET r == conv(derive, special, cache, Head(descs))
       IN IF r.kind # "return"
          THEN [kind |-> r.kind, codes |-> codes, cache |-> r.cache]
          ELSE ConvAll(derive, special, r.cache, Tail(descs),
                       Append(codes, r.val))

\* one iteration of loadTsv's loop: the row it yields, or the error thrown
\* (input is undefined for a line without a tab, and input.split throws)
LoadLine(derive, special, cache, line) ==
  LET fields == Split(line, TAB)
  IN IF Len(fields) < 2
     THEN [kind |-> "type_error", cache |-> cache, row |-> <<>>]
     ELSE LET r == ConvAll(derive, special, cache, Split(fields[2], SP), <<>>)
          IN [kind |-> r.kind, cache |-> r.cache,
              row |-> IF r.kind = "return"
                      THEN <<fields[1], Join(r.codes, SP)>>
                             \o SubSeq(fields, 3, Len(fields))
                      ELSE <<>>]

(***************************************************************************)
(* Main: the schemes, generate, and the loop that starts each scheme.      *)
(***************************************************************************)
AllNames == {"tupa", "kyonh"}

\* the override table each scheme's converter is made with
SchemeSpecial(name) ==
  IF name = "tupa" THEN (<<107>> :> <<GT, 120>>) ELSE (<<107>> :> <<EQ, 100>>)

\* the external derivation function of each scheme, and the parser: the
\* parser rejects "z" and marked strings; kyonh's derivation rejects "e"
SchemeDerive(name) ==
  IF name = "tupa"
  THEN [tag |-> 116, bad |-> {<<122>>, <<BANG, 106>>}, fails |-> {}]
  ELSE [tag |-> 121, bad |-> {<<122>>, <<BANG, 106>>}, fails |-> {<<101>>}]

\* the header blocks, by scheme and artifact
Header(name, artifact) ==
  <<35, IF name = "tupa" THEN 116 ELSE 121,
        CASE artifact = "dict" -> 100
          [] artifact = "words" -> 119
          [] OTHER -> 117,
    NL>>

SourceTables == <<"chars", "words", "extra_words">>
Artifacts == {"dict", "words", "unspaced"}

\* a generate that writes the primary artifact before loading extra_words
GenerateStepsEarlyWrite ==
  <<"chars", "words", "open_dict", "write_dict", "extra_words",
    "open_words", "write_words", "open_unspaced", "write_unspaced", "done">>

\* the awaited steps of generate, in program order
GenerateSteps ==
  <<"chars", "words", "extra_words", "open_dict", "write_dict",
    "open_words", "write_words", "open_unspaced", "write_unspaced", "done">>

NextStep(pc) ==
  LET i == CHOOSE k \in 1..Len(GenerateSteps) : GenerateSteps[k] = pc
  IN GenerateSteps[i + 1]

Loading(pc) == pc \in {"chars", "words", "extra_words"}
Opening(pc) == pc \in {"open_dict", "open_words", "open_unspaced"}
Writing(pc) == pc \in {"write_dict", "write_words", "write_unspaced"}

ArtifactOf(pc) ==
  CASE pc \in {"open_dict", "write_dict"} -> "dict"
    [] pc \in {"open_words", "write_words"} -> "words"
    [] OTHER -> "unspaced"

\* the rejection of generate's promise, which nothing handles: the scheme
\* has failed, and under the runtime's "throw" mode the process ends
Reject(name, kind) ==
  /\ gpc' = [gpc EXCEPT ![name] = "failed"]
  /\ gerr' = [gerr EXCEPT ![name] = kind]
  /\ gexited' = (gmode = "throw")

\* the main loop calls generate(name, ...) for the next scheme: generate
\* runs up to its first await, inside the load of chars.tsv
Start(name) ==
  /\ ~gexited
  /\ gstarted < Len(gorder) /\ gorder[gstarted + 1] = name
  /\ gstarted' = gstarted + 1
  /\ gpc' = [gpc EXCEPT ![name] = GenerateSteps[1]]
  /\ UNCHANGED <<gorder, gmode, gsrc, gexited, gpos, gdict, gwords, gcache,
                 gart, gloaded, ghist, gerr>>
  /\ UNCHANGED <<cmpVars, uniqVars, convVars>>

\* callbacks run once the main script has run to its end
Running(name) == ~gexited /\ gstarted = Len(gorder)

\* one line of the current table: converted and pushed, or the load throws
ReadLine(name) ==
  /\ Running(name) /\ Loading(gpc[name])
  /\ gpos[name] < Len(gsrc[gpc[name]])
  /\ LET r == LoadLine(SchemeDerive(name), SchemeSpecial(name), gcache[name],
                       gsrc[gpc[name]][gpos[name] + 1])
         into == IF gpc[name] = "extra_words" THEN "words" ELSE "dict"
     IN /\ gcache' = [gcache EXCEPT ![name] = r.cache]
        /\ IF r.kind = "return"
           THEN /\ gpos' = [gpos EXCEPT ![name] = @ + 1]
                /\ gdict' = IF into = "dict"
                            THEN [gdict EXCEPT ![name] = Append(@, r.row)]
                            ELSE gdict
                /\ gwords' = IF into = "words"
                             THEN [gwords EXCEPT ![name] = Append(@, r.row)]
                             ELSE gwords
                /\ ghist' = [ghist EXCEPT ![name][into] = Append(@, r.row)]
                /\ UNCHANGED <<gpc, gerr, gexited>>
           ELSE /\ Reject(name, r.kind)
                /\ UNCHANGED <<gpos, gdict, gwords, ghist>>
  /\ UNCHANGED <<gorder, gmode, gsrc, gstarted, gart, gloaded>>
  /\ UNCHANGED <<cmpVars, uniqVars, convVars>>

\* the current table has ended: the await of extendFromTsv resolves
ReadEnd(name) ==
  /\ Running(name) /\ Loading(gpc[name])
  /\ gpos[name] = Len(gsrc[gpc[name]])
  /\ gloaded' = [gloaded EXCEPT ![name] = Append(@, gpc[name])]
  /\ gpc' = [gpc EXCEPT ![name] = NextStep(@)]
  /\ gpos' = [gpos EXCEPT ![name] = 0]
  /\ UNCHANGED <<gorder, gmode, gsrc, gstarted, gexited, gdict, gwords,
                 gcache, gart, ghist, gerr>>
  /\ UNCHANGED <<cmpVars, uniqVars, convVars>>

\* the read stream of the current table fails
ReadError(name) ==
  /\ Running(name) /\ Loading(gpc[name])
  /\ Reject(name, "read_error")
  /\ UNCHANGED <<gorder, gmode, gsrc, gstarted, gpos, gdict, gwords, gcache,
                 gart, gloaded, ghist>>
  /\ UNCHANGED <<cmpVars, uniqVars, convVars>>

\* createWriteStream opens the destination: created or truncated
OpenArtifact(name) ==
  /\ Running(name) /\ Opening(gpc[name])
  /\ gart' = [gart EXCEPT ![name][ArtifactOf(gpc[name])] =
                [state |-> "open", lines |-> <<>>]]
  /\ gpc' = [gpc EXCEPT ![name] = NextStep(@)]
  /\ UNCHANGED <<gorder, gmode, gsrc, gstarted, gexited, gpos, gdict, gwords,
                 gcache, gloaded, ghist, gerr>>
  /\ UNCHANGED <<cmpVars, uniqVars, convVars>>

\* pipeline(uniqSortedLines(...), stream) runs to its end
WriteArtifact(name) ==
  /\ Running(name) /\ Writing(gpc[name])
  /\ LET a == ArtifactOf(gpc[name])
         n == Len(gdict[name])
         r == CASE a = "dict" ->
                     uniqSortedLines(gdict[name], Header(name, a), FALSE)
                [] a = "words" ->
                     uniqSortedLines(gwords[name], Header(name, a), FALSE)
                [] OTHER ->
                     uniqSortedLines(gdict[name] \o gwords[name],
                                     Header(name, a), TRUE)
     IN /\ gart' = [gart EXCEPT ![name][a] =
                      [state |-> "closed", lines |-> r.lines]]
        /\ gdict' = [gdict EXCEPT ![name] =
                       CASE a = "dict" -> r.rows
                         [] a = "words" -> @
                         [] OTHER -> SubSeq(r.rows, 1, n)]
        /\ gwords' = [gwords EXCEPT ![name] =
                        CASE a = "dict" -> @
                          [] a = "words" -> r.rows
                          [] OTHER -> SubSeq(r.rows, n + 1, Len(r.rows))]
  /\ gpc' = [gpc EXCEPT ![name] = NextStep(@)]
  /\ UNCHANGED <<gorder, gmode, gsrc, gstarted, gexited, gpos, gcache,
                 gloaded, ghist, gerr>>
  /\ UNCHANGED <<cmpVars, uniqVars, convVars>>

\* the write stream fails, while opening or while writing
WriteError(name) ==
  /\ Running(name) /\ (Opening(gpc[name]) \/ Writing(gpc[name]))
  /\ Reject(name, "write_error")
  /\ UNCHANGED <<gorder, gmode, gsrc, gstarted, gpos, gdict, gwords, gcache,
                 gart, gloaded, ghist>>
  /\ UNCHANGED <<cmpVars, uniqVars, convVars>>

(***************************************************************************)
(* Rows handed to the comparator: every row of at least one field over     *)
(* three code units (a lead surrogate, a trail surrogate, and a basic-     *)
(* plane unit above the surrogate range), by fields + code units.          *)
(***************************************************************************)
CmpUnits == {55296, 56320, 65374}

StrOfLen(n) == [1..n -> CmpUnits]

RECURSIVE RowsFU(_, _)
RowsFU(f, n) ==
  IF f = 0 THEN (IF n = 0 THEN {<<>>} ELSE {})
  ELSE UNION {{<<s>> \o r : s \in StrOfLen(k), r \in RowsFU(f - 1, n - k)} :
              k \in 0..n}

RowsUpTo(size) ==
  UNION {RowsFU(p[1], p[2]) :
         p \in {q \in (1..size) \X (0..size) : q[1] + q[2] <= size}}

TripleRows == RowsUpTo(TripleRowSize)
PairRows == RowsUpTo(PairRowSize)

\* compareRow applied to every ordered pair among three rows
CompareThree ==
  /\ ~cres.done
  /\ cres' = [done |-> TRUE,
              xy |-> compareRow(cx, cy), yx |-> compareRow(cy, cx),
              yz |-> compareRow(cy, cz), xz |-> compareRow(cx, cz)]
  /\ UNCHANGED <<cx, cy, cz>>
  /\ UNCHANGED <<uniqVars, convVars, genVars>>

\* compareRow applied to two rows, both ways round
CompareTwo ==
  /\ ~cres.done
  /\ cres' = [done |-> TRUE,
              xy |-> compareRow(cx, cy), yx |-> compareRow(cy, cx)]
  /\ UNCHANGED <<cx, cy, cz>>
  /\ UNCHANGED <<uniqVars, convVars, genVars>>

InitCmp3 ==
  /\ cx \in TripleRows /\ cy \in TripleRows /\ cz \in TripleRows
  /\ cres = NoResult
  /\ UniqIdle /\ ConvIdle /\ GenIdle

InitCmp2 ==
  /\ cx \in PairRows /\ cy \in PairRows /\ cz = <<>>
  /\ cres = NoResult
  /\ UniqIdle /\ ConvIdle /\ GenIdle

NextCmp3 == CompareThree
NextCmp2 == CompareTwo

SpecCmp3 == InitCmp3 /\ [][NextCmp3]_vars
SpecCmp2 == InitCmp2 /\ [][NextCmp2]_vars

(***************************************************************************)
(* C2: compareRow is a total order on rows of at least one field: the      *)
(* sign flips when the arguments are swapped, it is transitive, and it is  *)
(* zero exactly for two rows with the same field sequence.                 *)
(***************************************************************************)
C2_TotalOrder ==
  cres.done =>
    /\ Sgn(cres.xy) = -Sgn(cres.yx)
    /\ (cres.xy <= 0 /\ cres.yz <= 0) => cres.xz <= 0
    /\ (cres.xy = 0) <=> (cx = cy)

\* three different rows in strictly increasing order, the first two of
\* which differ only in their field count
C2_Witness ==
  /\ cres.done
  /\ cres.xy < 0 /\ cres.yz < 0 /\ cres.xz < 0
  /\ Len(cx) < Len(cy) /\ cx = SubSeq(cy, 1, Len(cx))

(***************************************************************************)
(* The reference order of C3, stated on code point sequences without the   *)
(* comparator's loops.                                                     *)
(***************************************************************************)
\* the positions of s at which a code point starts: every position but a
\* trail surrogate that directly follows a lead surrogate
CpStarts(s) ==
  {i \in 1..Len(s) : ~(i > 1 /\ IsTrail(s[i]) /\ IsLead(s[i - 1]))}

\* the code point that starts at position p of s
CpAt(s, p) ==
  IF p < Len(s) /\ IsLead(s[p]) /\ IsTrail(s[p + 1])
  THEN 65536 + (s[p] - 55296) * 1024 + (s[p + 1] - 56320)
  ELSE s[p]

RefCps(s) ==
  LET st == CpStarts(s)
      pos(k) == CHOOSE p \in st : Cardinality({q \in st : q <= p}) = k
  IN [k \in 1..Cardinality(st) |-> CpAt(s, pos(k))]

\* a sorts strictly before b: at the first place they differ, a has ended
\* or has the numerically smaller code point
RefStrLess(a, b) ==
  \E k \in 1..Len(b) :
    /\ k <= Len(a) + 1
    /\ \A i \in 1..(k - 1) : a[i] = b[i]
    /\ (k = Len(a) + 1 \/ a[k] < b[k])

RefRowSign(x, y) ==
  LET wx == Cardinality(CpStarts(x[1]))
      wy == Cardinality(CpStarts(y[1]))
      l == Min(Len(x), Len(y))
      diffs == {i \in 1..l : x[i] # y[i]}
      first == CHOOSE i \in diffs : \A j \in diffs : i <= j
  IN IF wx # wy THEN (IF wx < wy THEN -1 ELSE 1)
     ELSE IF diffs # {}
          THEN (IF RefStrLess(RefCps(x[first]), RefCps(y[first])) THEN -1 ELSE 1)
          ELSE IF Len(x) < Len(y) THEN -1
               ELSE IF Len(x) > Len(y) THEN 1 ELSE 0

(***************************************************************************)
(* C3: the sign of compareRow(x, y) is that of the reference order: the    *)
(* word with fewer code points first; else the first differing field       *)
(* decides, by the numeric value of the first differing code point, a      *)
(* strict prefix before the longer string; else the row with fewer fields  *)
(* first.                                                                  *)
(***************************************************************************)
C3_ReferenceOrder == cres.done => Sgn(cres.xy) = RefRowSign(cx, cy)

\* a word that is one supplementary-plane character (U+10000) is compared
\* with a word that is one basic-plane character (U+FF5E) and sorts after it
C3_Witness ==
  /\ cres.done
  /\ cx[1] = <<55296, 56320>> /\ cy[1] = <<65374>>
  /\ cres.xy > 0

(***************************************************************************)
(* Rows handed to uniqSortedLines: a word, a codes field that may hold     *)
(* spaces, "-" (45) and "=", and at most one extra field.                  *)
(***************************************************************************)
UniqWords == {<<97>>, <<97, 97>>}
UniqCodes == {<<98>>, <<98, SP, 99>>, <<98, 45, 99>>, <<98, EQ, 99>>,
              <<98, SP, 99, SP, 98>>}
UniqRowSet == {<<w, c>> : w \in UniqWords, c \in UniqCodes} \cup
              {<<w, c, <<101>>>> : w \in UniqWords, c \in UniqCodes}
UniqHeaders == {<<>>, <<35, NL>>}

SeqsUpTo(S, n) == UNION {[1..k -> S] : k \in 0..n}

\* one full pass over uniqSortedLines(urows, uhdr, uflag)
RunUniq ==
  /\ ~uout.done
  /\ LET r == uniqSortedLines(urows, uhdr, uflag)
     IN /\ uout' = [done |-> TRUE, lines |-> r.lines, before |-> urows]
        /\ urows' = r.rows
  /\ UNCHANGED <<uhdr, uflag>>
  /\ UNCHANGED <<cmpVars, convVars, genVars>>

InitUniq ==
  /\ urows \in SeqsUpTo(UniqRowSet, UniqMaxRows)
  /\ uhdr \in UniqHeaders
  /\ uflag \in BOOLEAN
  /\ uout = NoResult
  /\ CmpIdle /\ ConvIdle /\ GenIdle

NextUniq == RunUniq

SpecUniq == InitUniq /\ [][NextUniq]_vars

\* the data lines of the result: the lines after the header
UniqDataLines ==
  IF uhdr # <<>> THEN Tail(uout.lines) ELSE uout.lines

\* str with "=" wherever str has a space
Unspaced(str) == [i \in 1..Len(str) |-> IF str[i] = SP THEN EQ ELSE str[i]]

\* the line of a row as the artifact shows it
LineOf(row, unspaced) ==
  Join(IF unspaced THEN [row EXCEPT ![2] = Unspaced(@)] ELSE row, TAB)
    \o <<NL>>

(***************************************************************************)
(* C1: the sequence uniqSortedLines produces never holds two identical     *)
(* data lines, adjacent or not, and every joined line is emitted (so each  *)
(* distinct line exactly once), for either value of the unspaced flag.     *)
(***************************************************************************)
C1_FullDedup ==
  uout.done =>
    /\ \A i, j \in 1..Len(UniqDataLines) :
         i # j => UniqDataLines[i] # UniqDataLines[j]
    /\ {UniqDataLines[i] : i \in 1..Len(UniqDataLines)}
         = {LineOf(uout.before[k], uflag) : k \in 1..Len(uout.before)}

(***************************************************************************)
(* Converters and calls: override keys "k" and "j", each absent or bound   *)
(* to one of the instructions below; descriptions "d", "e", "k" and the    *)
(* marked "!k", "!j", "!constructor".  The parser rejects "!j" (it is no    *)
(* description) and may reject "e"; the derivation function may reject "e".*)
(***************************************************************************)
ConvKeys == {<<107>>, <<106>>}
ConvInstructions ==
  {<<>>, <<GT>>, <<GT, 120>>, <<EQ, 100>>, <<EQ, 107>>, <<EQ, BANG, 106>>,
   <<63, 100>>}
ConvTables == UNION {[keys -> ConvInstructions] : keys \in SUBSET ConvKeys}
ConvArgs ==
  {<<100>>, <<101>>, <<107>>, <<BANG, 107>>, <<BANG, 106>>,
   <<BANG>> \o CHOOSE key \in ObjectPrototypeKeys : TRUE}
ConvDerivers ==
  {[tag |-> 116, bad |-> b, fails |-> f] :
     b \in {{<<BANG, 106>>}, {<<BANG, 106>>, <<101>>}}, f \in {{}, {<<101>>}}}

\* one call conv(x) from the loader; a call that throws ends the load, and
\* with it the calls to this converter
ConvCall(x) ==
  /\ ~vthrown
  /\ Len(vlog) < ConvMaxCalls
  /\ LET r == conv(vderive, vspecial, vcache, x)
     IN /\ vlog' = Append(vlog, [x |-> x, kind |-> r.kind, val |-> r.val,
                                 parsed |-> r.parsed, derived |-> r.derived,
                                 before |-> vcache, after |-> r.cache])
        /\ vcache' = r.cache
        /\ vthrown' = (r.kind # "return")
  /\ UNCHANGED <<vspecial, vderive>>
  /\ UNCHANGED <<cmpVars, uniqVars, genVars>>

InitConv ==
  /\ vspecial \in ConvTables
  /\ vderive \in ConvDerivers
  /\ vcache = <<>>
  /\ vlog = <<>>
  /\ vthrown = FALSE
  /\ CmpIdle /\ UniqIdle /\ GenIdle

NextConv == \E x \in ConvArgs : ConvCall(x)

SpecConv == InitConv /\ [][NextConv]_vars

Marked(key) == <<BANG>> \o key

\* how often the calls so far handed description d to the derivation function
DeriveCount(d) ==
  Cardinality({i \in 1..Len(vlog) : vlog[i].derived = <<d>>})

Calls == 1..Len(vlog)

(***************************************************************************)
(* C4: with an override K = ">X", every call with "!K", after any earlier  *)
(* calls, returns X, invokes neither the parser nor the derivation         *)
(* function, and leaves the cache as it was.                               *)
(***************************************************************************)
C4_Substitute ==
  \A i \in Calls : \A key \in DOMAIN vspecial :
    (vlog[i].x = Marked(key) /\ StartsWith(vspecial[key], GT)) =>
      /\ vlog[i].kind = "return"
      /\ <<GT>> \o vlog[i].val = vspecial[key]
      /\ vlog[i].parsed = <<>> /\ vlog[i].derived = <<>>
      /\ vlog[i].after = vlog[i].before

\* a substitute call made a second time, after a derivation filled the cache
C4_Witness ==
  \E i, j \in Calls : \E key \in DOMAIN vspecial :
    /\ i < j
    /\ vlog[i].x = Marked(key) /\ vlog[j].x = Marked(key)
    /\ vspecial[key] = <<GT, 120>>
    /\ vlog[j].val = <<120>>
    /\ vlog[j].before # <<>>

(***************************************************************************)
(* C5, as stated: with an override K = "=D", converting "!K" gives what    *)
(* converting D directly gives, in any order and after any earlier calls;  *)
(* after either call the cache has an entry for D and none for "!K" or K;  *)
(* and converting both invokes the derivation function exactly once.       *)
(***************************************************************************)
C5_RewriteAsStated ==
  \A key \in DOMAIN vspecial :
    StartsWith(vspecial[key], EQ) =>
      LET D == Slice1(vspecial[key])
          returned(x) == {i \in Calls : vlog[i].x = x /\ vlog[i].kind = "return"}
      IN /\ \A i \in Calls :
              vlog[i].x = Marked(key) =>
                LET direct == conv(vderive, vspecial, vlog[i].before, D)
                IN /\ vlog[i].kind = direct.kind
                   /\ vlog[i].val = direct.val
                   /\ vlog[i].after = direct.cache
         /\ \A i \in returned(Marked(key)), j \in returned(D) :
              vlog[i].val = vlog[j].val
         /\ \A i \in returned(Marked(key)) \cup returned(D) :
              /\ D \in DOMAIN vlog[i].after
              /\ Marked(key) \notin DOMAIN vlog[i].after
              /\ key \notin DOMAIN vlog[i].after
         /\ (returned(Marked(key)) # {} /\ returned(D) # {})
              => DeriveCount(D) = 1

(***************************************************************************)
(* C5, amended: the same for a D that does not itself begin with "!",      *)
(* where after either call the cache has an entry for D and the call has   *)
(* added no other entry (none for "!K", and none for K unless K = D).      *)
(***************************************************************************)
C5_Rewrite ==
  \A key \in DOMAIN vspecial :
    (StartsWith(vspecial[key], EQ) /\ ~StartsWith(Slice1(vspecial[key]), BANG)) =>
      LET D == Slice1(vspecial[key])
          returned(x) == {i \in Calls : vlog[i].x = x /\ vlog[i].kind = "return"}
      IN /\ \A i \in Calls :
              vlog[i].x = Marked(key) =>
                LET direct == conv(vderive, vspecial, vlog[i].before, D)
                IN /\ vlog[i].kind = direct.kind
                   /\ vlog[i].val = direct.val
                   /\ vlog[i].after = direct.cache
         /\ \A i \in returned(Marked(key)), j \in returned(D) :
              vlog[i].val = vlog[j].val
         /\ \A i \in returned(Marked(key)) \cup returned(D) :
              /\ D \in DOMAIN vlog[i].after
              /\ (DOMAIN vlog[i].after) \ (DOMAIN vlog[i].before) \subseteq {D}
         /\ (returned(Marked(key)) # {} /\ returned(D) # {})
              => DeriveCount(D) = 1

\* "!k" with k = "=d" is converted first and derives "d"; "d" is converted
\* afterwards and is served from the entry the first call stored
C5_Witness ==
  \E i, j \in Calls :
    /\ i < j
    /\ <<107>> \in DOMAIN vspecial /\ vspecial[<<107>>] = <<EQ, 100>>
    /\ vlog[i].x = <<BANG, 107>> /\ vlog[i].derived = <<<<100>>>>
    /\ vlog[j].x = <<100>> /\ vlog[j].kind = "return"
    /\ vlog[j].derived = <<>> /\ vlog[j].val = vlog[i].val

(***************************************************************************)
(* C6: over the calls to one converter the derivation function is invoked  *)
(* at most once per (post-rewrite) description; a later call with that     *)
(* description returns the first call's value without invoking the parser  *)
(* or the derivation function; and a cache entry, once stored, is never    *)
(* removed or changed.                                                     *)
(***************************************************************************)
\* the description normal handling sees for argument x, as a sequence of
\* at most one string
PostRewrite(x) ==
  IF ~StartsWith(x, BANG) THEN <<x>>
  ELSE IF Slice1(x) \in DOMAIN vspecial /\ StartsWith(vspecial[Slice1(x)], EQ)
       THEN <<Slice1(vspecial[Slice1(x)])>>
       ELSE <<>>

C6_Memoized ==
  /\ \A i \in Calls :
       vlog[i].derived # <<>> => DeriveCount(vlog[i].derived[1]) <= 1
  /\ \A i, j \in Calls :
       (i < j /\ PostRewrite(vlog[i].x) # <<>>
              /\ PostRewrite(vlog[i].x) = PostRewrite(vlog[j].x)) =>
         /\ vlog[j].kind = "return" /\ vlog[j].val = vlog[i].val
         /\ vlog[j].parsed = <<>> /\ vlog[j].derived = <<>>
  /\ \A i \in Calls :
       /\ \A d \in DOMAIN vlog[i].before :
            d \in DOMAIN vlog[i].after /\ vlog[i].after[d] = vlog[i].before[d]
       /\ i > 1 => vlog[i].before = vlog[i - 1].after
       /\ i = Len(vlog) => vcache = vlog[i].after

\* the same description converted three times, once through a rewrite:
\* derived by the first call only
C6_Witness ==
  /\ Len(vlog) = 3
  /\ vlog[1].x = <<100>> /\ vlog[1].derived = <<<<100>>>>
  /\ vlog[2].x = <<BANG, 107>> /\ PostRewrite(vlog[2].x) = <<<<100>>>>
  /\ vlog[3].x = <<100>>
  /\ vlog[2].val = vlog[1].val /\ vlog[3].val = vlog[1].val
  /\ DeriveCount(<<100>>) = 1

(***************************************************************************)
(* C7: a marked description "!K" fails with the "unhandled special" error  *)
(* when K is no key of the override table, and with the "invalid           *)
(* instruction" error when K is a key whose instruction, of any length,    *)
(* begins with neither ">" nor "="; either way nothing is returned, the    *)
(* derivation function is not invoked and the cache is unchanged.          *)
(***************************************************************************)
C7_ErrorsByCause ==
  \A i \in Calls :
    StartsWith(vlog[i].x, BANG) =>
      LET key == Slice1(vlog[i].x)
          quiet == /\ vlog[i].parsed = <<>> /\ vlog[i].derived = <<>>
                   /\ vlog[i].after = vlog[i].before
      IN /\ key \notin DOMAIN vspecial
              => (vlog[i].kind = "unhandled" /\ quiet)
         /\ (/\ key \in DOMAIN vspecial
             /\ ~StartsWith(vspecial[key], GT)
             /\ ~StartsWith(vspecial[key], EQ))
              => (vlog[i].kind = "invalid" /\ quiet)

(***************************************************************************)
(* Generator runs: one scheme or both, in either order; source lines       *)
(* "a<TAB>d", "aa<TAB>d !k d<TAB>x" and "a<TAB>e", spread over the three   *)
(* tables.                                                                 *)
(***************************************************************************)
GenLines ==
  {<<97, TAB, 100>>,
   <<97, 97, TAB, 100, SP, BANG, 107, SP, 100, TAB, 120>>,
   <<97, TAB, 101>>}

GenOrders ==
  {<<"tupa">>, <<"kyonh">>, <<"tupa", "kyonh">>, <<"kyonh", "tupa">>}

GenSources ==
  {[chars |-> SubSeq(all, 1, i), words |-> SubSeq(all, i + 1, j),
    extra_words |-> SubSeq(all, j + 1, Len(all))] :
     <<all, i, j>> \in
       {t \in SeqsUpTo(GenLines, GenMaxLines) \X (0..GenMaxLines)
                \X (0..GenMaxLines) :
          t[2] <= t[3] /\ t[3] <= Len(t[1])}}

Untouched == [a \in Artifacts |-> [state |-> "absent", lines |-> <<>>]]

InitGen ==
  /\ gorder \in GenOrders
  /\ gmode \in {"throw", "warn"}
  /\ gsrc \in GenSources
  /\ gstarted = 0
  /\ gexited = FALSE
  /\ gpc = [n \in AllNames |-> "idle"]
  /\ gpos = [n \in AllNames |-> 0]
  /\ gdict = [n \in AllNames |-> <<>>]
  /\ gwords = [n \in AllNames |-> <<>>]
  /\ gcache = [n \in AllNames |-> <<>>]
  /\ gart = [n \in AllNames |-> Untouched]
  /\ gloaded = [n \in AllNames |-> <<>>]
  /\ ghist = [n \in AllNames |-> [dict |-> <<>>, words |-> <<>>]]
  /\ gerr = [n \in AllNames |-> "none"]
  /\ CmpIdle /\ UniqIdle /\ ConvIdle

NextGen ==
  \E name \in AllNames :
    \/ Start(name)
    \/ ReadLine(name)
    \/ ReadEnd(name)
    \/ ReadError(name)
    \/ OpenArtifact(name)
    \/ WriteArtifact(name)
    \/ WriteError(name)

SpecGen == InitGen /\ [][NextGen]_vars

\* the state of every artifact of a scheme
ArtifactStates(name) == {gart[name][a].state : a \in Artifacts}

\* the lines of a closed artifact after its header
DataLines(name, a) == Tail(gart[name][a].lines)

Range(f) == {f[i] : i \in DOMAIN f}

(***************************************************************************)
(* C8: uniqSortedLines leaves the caller's collections and every field of  *)
(* every row as they were loaded; the primary and the words-only artifact  *)
(* hold the rows with their space-separated codes, and each line of the    *)
(* unspaced artifact is a source row with every space of codes replaced by *)
(* "=" and the word and extra fields as they are.                          *)
(***************************************************************************)
C8_UnspacedOnly ==
  \A name \in AllNames :
    /\ gdict[name] = ghist[name].dict
    /\ gwords[name] = ghist[name].words
    /\ \A a \in Artifacts :
         gart[name][a].state = "closed" =>
           LET source == CASE a = "dict" -> ghist[name].dict
                           [] a = "words" -> ghist[name].words
                           [] OTHER -> ghist[name].dict \o ghist[name].words
           IN /\ Head(gart[name][a].lines) = Header(name, a)
              /\ Range(DataLines(name, a))
                   = {LineOf(row, a = "unspaced") : row \in Range(source)}

\* all three artifacts of a scheme are written, and a row whose codes hold
\* a space shows with the space in the primary artifact and with "=" in
\* the unspaced one
C8_Witness ==
  \E name \in AllNames : \E row \in Range(ghist[name].dict) :
    /\ SP \in Range(row[2])
    /\ gart[name]["dict"].state = "closed"
    /\ gart[name]["unspaced"].state = "closed"
    /\ LineOf(row, FALSE) \in Range(DataLines(name, "dict"))
    /\ LineOf(row, TRUE) \in Range(DataLines(name, "unspaced"))
    /\ LineOf(row, FALSE) \notin Range(DataLines(name, "unspaced"))

(***************************************************************************)
(* What generate writes for a scheme that runs alone: the tables loaded    *)
(* one after the other through a fresh converter, then the three           *)
(* sequences of uniqSortedLines.                                           *)
(***************************************************************************)
RECURSIVE LoadTable(_, _, _, _)
LoadTable(name, cache, lines, rows) ==
  IF lines = <<>> THEN [cache |-> cache, rows |-> rows]
  ELSE LET r == LoadLine(SchemeDerive(name), SchemeSpecial(name), cache,
                         Head(lines))
       IN LoadTable(name, r.cache, Tail(lines), Append(rows, r.row))

AloneArtifacts(name) ==
  LET chars == LoadTable(name, <<>>, gsrc.chars, <<>>)
      words == LoadTable(name, chars.cache, gsrc.words, chars.rows)
      extra == LoadTable(name, words.cache, gsrc.extra_words, <<>>)
      closed(rows, a, unspaced) ==
        [state |-> "closed",
         lines |-> uniqSortedLines(rows, Header(name, a), unspaced).lines]
  IN [a \in Artifacts |->
        CASE a = "dict" -> closed(words.rows, a, FALSE)
          [] a = "words" -> closed(extra.rows, a, FALSE)
          [] OTHER -> closed(words.rows \o extra.rows, a, TRUE)]

(***************************************************************************)
(* C9: schemes generated in one invocation are independent: a scheme that  *)
(* completes has written the artifacts it writes when generated alone, and *)
(* the failure of one scheme's generation stops no other scheme short of   *)
(* its own completion.                                                     *)
(***************************************************************************)
C9_Independent ==
  \A name \in Range(gorder) :
    /\ gpc[name] = "done" => gart[name] = AloneArtifacts(name)
    /\ gexited => gpc[name] \in {"done", "failed"}

(***************************************************************************)
(* C10: within one generate run the tables are loaded to the end in the    *)
(* order chars, words, extra_words before any destination is created or    *)
(* written, so a scheme that fails while loading leaves its three          *)
(* artifacts untouched; the artifacts are then written one after another   *)
(* in the order primary, words-only, unspaced.                             *)
(***************************************************************************)
LoadErrors ==
  {"unhandled", "invalid", "type_error", "parse_error", "derive_error",
   "read_error"}

C10_LoadBeforeWrite ==
  \A name \in AllNames :
    /\ gloaded[name] = SubSeq(SourceTables, 1, Len(gloaded[name]))
    /\ ArtifactStates(name) # {"absent"} => gloaded[name] = SourceTables
    /\ gerr[name] \in LoadErrors => ArtifactStates(name) = {"absent"}
    /\ gart[name]["words"].state # "absent"
         => gart[name]["dict"].state = "closed"
    /\ gart[name]["unspaced"].state # "absent"
         => gart[name]["words"].state = "closed"

\* a scheme whose derivation failed on a row of extra_words, after chars
\* and words were loaded: nothing of it was created
C10_Witness ==
  \E name \in AllNames :
    /\ gpc[name] = "failed" /\ gerr[name] = "derive_error"
    /\ gloaded[name] = <<"chars", "words">>
    /\ ghist[name].dict # <<>>
    /\ ArtifactStates(name) = {"absent"}

====
